---- MODULE Spec2Model ----
(***************************************************************************)
(* A model of the experiences data layer, src/src/lib/data/index.ts:       *)
(* the record mapper, the localStorage fallback, the remote accessors and  *)
(* the stateful manager (the useExperiencesManager hook).                  *)
(*                                                                         *)
(* JavaScript values are tagged records, so that values of different      *)
(* JavaScript types can be compared.  A JavaScript object is a function    *)
(* from its own keys to values; reading a key it does not have gives       *)
(* undefined.                                                              *)
(***************************************************************************)
EXTENDS Integers, Sequences, FiniteSets, TLC

VARIABLES
    remote,       \* the remote table "experiences": its rows, in insertion order
    nextId,       \* how many identifiers the remote store has assigned
    storage,      \* the localStorage item 'experiences'
    experiences,  \* useState: the in-memory list
    isLoading,    \* useState: the loading flag
    error,        \* useState: the error message, or null
    activation,   \* the mount effect: "idle", "fetching" or "settled"
    inflight,     \* the calls awaiting the remote store's answer
    issued,       \* how many calls have been made
    last,         \* the outcome of the call that completed last
    mapper        \* the record mapper applied to one row on its own

vars == <<remote, nextId, storage, experiences, isLoading, error, activation,
          inflight, issued, last, mapper>>

---------------------------------------------------------------------------
(* JavaScript values *)

Undef == [t |-> "undefined"]
Null == [t |-> "null"]
NaN == [t |-> "nan"]
Bool(b) == [t |-> "boolean", b |-> b]
Num(n) == [t |-> "number", n |-> n]
Str(s) == [t |-> "string", s |-> s]
Arr(a) == [t |-> "array", a |-> a]
\* a JSON object that is not an array, such as {}
EmptyObj == [t |-> "object"]

\* o[k] of JavaScript: undefined when o has no own key k
Get(o, k) == IF k \in DOMAIN o THEN o[k] ELSE Undef

\* ToBoolean: what `v ? a : b` and `v || d` test
Truthy(v) ==
    CASE v.t = "undefined" -> FALSE
      [] v.t = "null" -> FALSE
      [] v.t = "nan" -> FALSE
      [] v.t = "boolean" -> v.b
      [] v.t = "number" -> v.n # 0
      [] v.t = "string" -> v.s # ""
      [] OTHER -> TRUE

\* v || d
Or(v, d) == IF Truthy(v) THEN v ELSE d

\* the decimal numerals among the strings of the model
Numerals == [s \in {"12", "0", "7"} |-> CASE s = "12" -> 12 [] s = "0" -> 0 [] s = "7" -> 7]

\* Number(v); an array goes by the string it joins to
RECURSIVE NumberOf(_)
NumberOf(v) ==
    CASE v.t = "number" -> v
      [] v.t = "string" ->
           IF v.s = "" THEN Num(0)
           ELSE IF v.s \in DOMAIN Numerals THEN Num(Numerals[v.s]) ELSE NaN
      [] v.t = "boolean" -> IF v.b THEN Num(1) ELSE Num(0)
      [] v.t = "null" -> Num(0)
      [] v.t = "array" ->
           IF v.a = <<>> THEN Num(0)
           ELSE IF Len(v.a) > 1 THEN NaN
           ELSE IF v.a[1].t \in {"null", "undefined"} THEN Num(0)
           ELSE IF v.a[1].t \in {"number", "string", "array"} THEN NumberOf(v.a[1])
           ELSE NaN
      [] OTHER -> NaN

\* String.prototype.toLowerCase on the strings of the model
Lower(s) ==
    CASE s = "Adventure" -> "adventure"
      [] s = "ADVENTURE" -> "adventure"
      [] s = "Romance" -> "romance"
      [] OTHER -> s

---------------------------------------------------------------------------
(* The record mapper *)

ExpFields ==
    {"id", "title", "description", "imageUrl", "price", "location", "latitude",
     "longitude", "duration", "participants", "date", "category", "nicheCategory",
     "exp_type", "trending", "featured", "romantic", "adventurous", "group"}

\* the columns every select of the module names
DbFields ==
    {"id", "title", "description", "image_url", "price", "location", "latitude",
     "longitude", "duration", "participants", "date", "category", "niche_category",
     "exp_type", "trending", "featured", "romantic", "adventurous", "group_activity"}

mapDbExperienceToModel_NoDefault(item) ==
    [id |-> Get(item, "id"),
     title |-> Get(item, "title"),
     description |-> Get(item, "description"),
     imageUrl |-> Get(item, "image_url"),
     price |-> Get(item, "price"),
     location |-> Get(item, "location"),
     latitude |-> IF Truthy(Get(item, "latitude")) THEN NumberOf(Get(item, "latitude")) ELSE Undef,
     longitude |-> IF Truthy(Get(item, "longitude")) THEN NumberOf(Get(item, "longitude")) ELSE Undef,
     duration |-> Get(item, "duration"),
     participants |-> Get(item, "participants"),
     date |-> Get(item, "date"),
     category |-> Get(item, "category"),
     nicheCategory |-> Get(item, "niche_category"),
     exp_type |-> Or(Get(item, "exp_type"), Arr(<<>>)),
     trending |-> Get(item, "trending"),
     featured |-> Get(item, "featured"),
     romantic |-> Get(item, "romantic"),
     adventurous |-> Get(item, "adventurous"),
     group |-> Get(item, "group_activity")]

mapDbExperienceToModel(item) ==
    [id |-> Get(item, "id"),
     title |-> Get(item, "title"),
     description |-> Get(item, "description"),
     imageUrl |-> Get(item, "image_url"),
     price |-> Get(item, "price"),
     location |-> Get(item, "location"),
     latitude |-> IF Truthy(Get(item, "latitude")) THEN NumberOf(Get(item, "latitude")) ELSE Undef,
     longitude |-> IF Truthy(Get(item, "longitude")) THEN NumberOf(Get(item, "longitude")) ELSE Undef,
     duration |-> Get(item, "duration"),
     participants |-> Get(item, "participants"),
     date |-> Get(item, "date"),
     category |-> Get(item, "category"),
     nicheCategory |-> Get(item, "niche_category"),
     exp_type |-> Or(Get(item, "exp_type"), Arr(<<>>)),
     trending |-> Or(Get(item, "trending"), Bool(FALSE)),
     featured |-> Or(Get(item, "featured"), Bool(FALSE)),
     romantic |-> Or(Get(item, "romantic"), Bool(FALSE)),
     adventurous |-> Or(Get(item, "adventurous"), Bool(FALSE)),
     group |-> Or(Get(item, "group_activity"), Bool(FALSE))]

\* data.map(mapDbExperienceToModel)
MapRows(data) == [i \in 1..Len(data) |-> mapDbExperienceToModel(data[i])]

\* the object addExperience hands to insert
addInsertPayload(experience) ==
    [title |-> Get(experience, "title"),
     description |-> Get(experience, "description"),
     image_url |-> Get(experience, "imageUrl"),
     price |-> Get(experience, "price"),
     location |-> Get(experience, "location"),
     duration |-> Get(experience, "duration"),
     participants |-> Get(experience, "participants"),
     date |-> Get(experience, "date"),
     category |-> Get(experience, "category"),
     niche_category |-> Get(experience, "nicheCategory"),
     exp_type |-> Get(experience, "exp_type"),
     trending |-> Or(Get(experience, "trending"), Bool(FALSE)),
     featured |-> Or(Get(experience, "featured"), Bool(FALSE)),
     romantic |-> Or(Get(experience, "romantic"), Bool(FALSE)),
     adventurous |-> Or(Get(experience, "adventurous"), Bool(FALSE)),
     group_activity |-> Or(Get(experience, "group"), Bool(FALSE))]

\* one element of experiencesToInsert of importExperiences
importInsertRow(exp) ==
    [title |-> Get(exp, "title"),
     description |-> Get(exp, "description"),
     image_url |-> Get(exp, "imageUrl"),
     price |-> Get(exp, "price"),
     location |-> Get(exp, "location"),
     duration |-> Get(exp, "duration"),
     participants |-> Get(exp, "participants"),
     date |-> Get(exp, "date"),
     category |-> Get(exp, "category"),
     niche_category |-> Get(exp, "nicheCategory"),
     exp_type |-> Get(exp, "exp_type"),
     trending |-> Or(Get(exp, "trending"), Bool(FALSE)),
     featured |-> Or(Get(exp, "featured"), Bool(FALSE)),
     romantic |-> Or(Get(exp, "romantic"), Bool(FALSE)),
     adventurous |-> Or(Get(exp, "adventurous"), Bool(FALSE)),
     group_activity |-> Or(Get(exp, "group"), Bool(FALSE))]

\* importedExperiences.map(...)
experiencesToInsert(imported) == [i \in 1..Len(imported) |-> importInsertRow(imported[i])]

---------------------------------------------------------------------------
(* JSON and the Local Fallback Store *)

\* JSON.stringify of one property value or array element: NaN is written null
JsonValue(v) ==
    CASE v.t = "nan" -> Null
      [] v.t = "undefined" -> Null
      [] v.t = "array" -> Arr([i \in 1..Len(v.a) |-> IF v.a[i].t \in {"nan", "undefined"} THEN Null ELSE v.a[i]])
      [] OTHER -> v

\* JSON.parse(JSON.stringify(o)) of one object: a key holding undefined is left out
JsonObject(o) == [k \in {x \in DOMAIN o : o[x] # Undef} |-> JsonValue(o[k])]

\* JSON.parse(JSON.stringify(list)) of a list of objects
JsonList(list) == [i \in 1..Len(list) |-> JsonObject(list[i])]

\* the list of ./experiences, the built-in default of the fallback
DefaultExperiences ==
    << [id |-> Str("d1"), title |-> Str("Default tour"), description |-> Str("Built in"),
        imageUrl |-> Str("default.png"), price |-> Num(5), location |-> Str("Town"),
        duration |-> Str("1h"), participants |-> Str("2"), date |-> Str("2024-01-01"),
        category |-> Str("Romance"), nicheCategory |-> Str("Walks"),
        exp_type |-> Arr(<<>>), trending |-> Bool(TRUE), featured |-> Bool(FALSE),
        romantic |-> Bool(TRUE), adventurous |-> Bool(FALSE), group |-> Bool(FALSE)] >>

\* the list of ./categories
categories ==
    << [id |-> "adventure", name |-> "Adventure"],
       [id |-> "romance", name |-> "Romance"] >>

\* a mutant: the write adds to the list the item holds instead of replacing it
StoredList_Append(list) ==
    [item |-> "array",
     list |-> (IF storage.item = "array" THEN storage.list ELSE <<>>) \o JsonList(list)]

\* localStorage.setItem('experiences', JSON.stringify(list)), as the item then parses
StoredList(list) == [item |-> "array", list |-> JsonList(list)]

\* getSavedExperiences(): the item parsed, or the default list when the item is
\* missing or does not parse
getSavedExperiences ==
    CASE storage.item = "absent" -> Arr(DefaultExperiences)
      [] storage.item = "unparsable" -> Arr(DefaultExperiences)
      [] storage.item = "null" -> Null
      [] storage.item = "object" -> EmptyObj
      [] storage.item = "array" -> Arr(storage.list)

---------------------------------------------------------------------------
(* The remote store: the table "experiences" behind the supabase client *)

IdStr == <<"e1", "e2", "e3", "e4", "e5", "e6", "e7", "e8", "e9", "e10", "e11", "e12">>

\* the n-th identifier the remote store assigns
IdOf(n) == Str(IdStr[n])

\* the row the store keeps for an inserted object: the store assigns the id, a
\* column the request does not carry is null (JSON carries no undefined)
StoredRow(payload, id) ==
    [f \in DbFields |->
        IF f = "id" THEN id
        ELSE IF Get(payload, f) = Undef THEN Null ELSE JsonValue(payload[f])]

\* insert(rows): the table after the insert, ids assigned from n + 1 on
InsertRows(table, rows, n) ==
    table \o [i \in 1..Len(rows) |-> StoredRow(rows[i], IdOf(n + i))]

\* update(updateData).eq('id', id)
UpdateRows(table, updateData, id) ==
    [i \in 1..Len(table) |->
        IF table[i].id = Str(id)
        THEN [f \in DbFields |->
                IF f \in DOMAIN updateData /\ updateData[f] # Undef
                THEN JsonValue(updateData[f]) ELSE table[i][f]]
        ELSE table[i]]

\* delete().eq('id', id)
DeleteRows(table, id) == SelectSeq(table, LAMBDA r : r.id # Str(id))

\* select(...).eq(column, true)
SelectFlag(table, column) == SelectSeq(table, LAMBDA r : r[column] = Bool(TRUE))

\* select(...).eq('id', id).maybeSingle(): the row, or null when there is none
SelectMaybeSingle(table, id) ==
    LET rows == SelectSeq(table, LAMBDA r : r.id = Str(id))
    IN IF rows = <<>> THEN Null ELSE rows[1]

\* select(...).ilike('category', pattern): a case-insensitive match
SelectILike(table, pattern) ==
    SelectSeq(table, LAMBDA r : r.category.t = "string" /\ Lower(r.category.s) = Lower(pattern))

---------------------------------------------------------------------------
(* The inputs of the model *)

\* how many calls one behaviour makes, the activation fetch apart
MaxCalls == 2

\* o with key k set to v
With(o, k, v) == [x \in DOMAIN o \cup {k} |-> IF x = k THEN v ELSE o[x]]

\* o without the keys that hold undefined
Present(o) == [k \in {x \in DOMAIN o : o[x] # Undef} |-> o[k]]

RowHike ==
    [id |-> Str("e1"), title |-> Str("Hike"), description |-> Str("A walk"),
     image_url |-> Str("hike.png"), price |-> Num(10), location |-> Str("Alps"),
     latitude |-> Str("12"), longitude |-> Null, duration |-> Str("2h"),
     participants |-> Str("4"), date |-> Str("2024-05-01"),
     category |-> Str("Adventure"), niche_category |-> Null, exp_type |-> Null,
     trending |-> Bool(TRUE), featured |-> Bool(FALSE), romantic |-> Null,
     adventurous |-> Bool(TRUE), group_activity |-> Bool(FALSE)]

RowDinner ==
    [id |-> Str("e2"), title |-> Str("Dinner"), description |-> Str("For two"),
     image_url |-> Str("dinner.png"), price |-> Num(40), location |-> Str("Rome"),
     latitude |-> Null, longitude |-> Null, duration |-> Str("3h"),
     participants |-> Str("2"), date |-> Str("2024-06-01"),
     category |-> Str("dining"), niche_category |-> Str("Food"),
     exp_type |-> Arr(<<Str("couple")>>),
     trending |-> Bool(FALSE), featured |-> Bool(TRUE), romantic |-> Bool(TRUE),
     adventurous |-> Bool(FALSE), group_activity |-> Bool(FALSE)]

\* the remote table when the application starts
InitialTable == <<RowHike, RowDinner>>

\* what an earlier session left in localStorage: three cached records
CachedList ==
    JsonList(MapRows(<<With(RowHike, "id", Str("c1")),
                       With(RowDinner, "id", Str("c2")),
                       With(With(RowHike, "id", Str("c3")), "category", Str("ADVENTURE"))>>))

\* what the item 'experiences' may hold when the application starts
InitialStorage ==
    {[item |-> "absent"], [item |-> "unparsable"], [item |-> "null"],
     [item |-> "object"], [item |-> "array", list |-> <<>>],
     [item |-> "array", list |-> CachedList]}

\* Experience values without id, as the UI hands them to addExperience
NewKayak ==
    [title |-> Str("Kayak"), description |-> Str("River"), imageUrl |-> Str("kayak.png"),
     price |-> Num(25), location |-> Str("Lake"), latitude |-> Num(7),
     duration |-> Str("1h"), participants |-> Str("2"), date |-> Str("2024-07-01"),
     category |-> Str("Adventure"), nicheCategory |-> Str("Water"),
     exp_type |-> Arr(<<Str("solo")>>), trending |-> Bool(TRUE), group |-> Bool(TRUE)]

NewPicnic ==
    [title |-> Str("Picnic"), description |-> Str("Park"), imageUrl |-> Str("picnic.png"),
     price |-> Num(0), location |-> Str("Park"),
     duration |-> Str("2h"), participants |-> Str("6"), date |-> Str("2024-08-01"),
     category |-> Str("Romance"), nicheCategory |-> Str("Outdoor"),
     exp_type |-> Arr(<<>>), romantic |-> Bool(TRUE)]

AddInputs == {NewKayak}

\* identifiers handed to delete and fetch-by-id: one of the initial table and the
\* first the store assigns later, which no row has until then
IdInputs == {"e1", "e3"}

\* identifiers handed to fetch-by-id: also one that only the cached list holds
ReadIds == IdInputs \cup {"c1"}

\* identifiers handed to update: in memory after a fetch, not in memory before it
\* or when the list came from the fallback
UpdateIds == {"e1"}

\* identifiers handed to delete where the calls overlap: in the table, and in
\* memory as for update
DeleteIds == {"e1"}

\* partial updates
UpdateInputs ==
    {[title |-> Str("Climb"), trending |-> Bool(FALSE), group |-> Bool(TRUE),
      latitude |-> Num(7)],
     [title |-> Undef, imageUrl |-> Str("new.png"), featured |-> Bool(TRUE)]}

\* the strings handed to importExperiences, as what JSON.parse makes of them
ImportInputs ==
    {[parse |-> "throws", value |-> Undef],
     [parse |-> "value", value |-> EmptyObj],
     [parse |-> "value", value |-> Arr(<<With(NewKayak, "id", Str("e1")), NewPicnic>>)]}

\* category identifiers handed to fetch-by-category
CategoryInputs == {"adventure", "romance", "nowhere"}

---------------------------------------------------------------------------
(* Calls and their outcomes *)

\* the error object of a failed remote call
RemoteError == [t |-> "error", name |-> "RemoteError"]
\* what JavaScript throws for null.length, null.filter, ({}).filter
TypeError == [t |-> "error", name |-> "TypeError"]

\* the answers the remote store may give to a request for `data`
Answers(data) == {[error |-> FALSE, data |-> data], [error |-> TRUE]}

NoCall == [seq |-> 0, op |-> "none", outcome |-> "none", value |-> Undef, toast |-> "none"]

\* the record of call c ending: it returned or raised `value`, after the toast
Outcome(c, outcome, value, toast) ==
    [seq |-> last.seq + 1, op |-> c.op, outcome |-> outcome, value |-> value,
     toast |-> toast, call |-> c]

Returned(c, value) == Outcome(c, "returned", value, "none")

\* a mutant: the catch swallows the error
ToastAndRaised_Swallow(c, message) == Outcome(c, "returned", Undef, message)

\* catch of the write paths: toast.error(message); throw err
ToastAndRaised(c, message) == Outcome(c, "raised", RemoteError, message)

CanCall == issued < MaxCalls

\* a call of one of the functions the hook returns: they are there from the first
\* render on, before React runs the mount effect as well as after
CanCallHook == CanCall

Mapper0 == [pc |-> "idle"]

---------------------------------------------------------------------------
(* useExperiencesManager: the mount effect *)

\* useEffect: fetchExperiences() up to its await, and the store answering
Activate ==
    /\ activation = "idle"
    /\ activation' = "fetching"
    /\ isLoading' = TRUE
    /\ error' = Null
    /\ \E resp \in Answers(remote) :
          inflight' = inflight \cup {[cid |-> 0, op |-> "fetch", resp |-> resp]}
    /\ UNCHANGED <<remote, nextId, storage, experiences, issued, last, mapper>>

\* a mutant: the catch forgets to substitute the fallback's list
FallbackList_Keep(saved) == experiences

\* the catch of fetchExperiences: the list the fallback leaves in memory
FallbackList(saved) ==
    IF saved.t = "array" /\ Len(saved.a) > 0 THEN saved.a ELSE experiences

\* a mutant: no finally, the flag is cleared at the end of the try block only
FetchComplete_NoFinally(c) ==
    /\ c.op = "fetch"
    /\ inflight' = inflight \ {c}
    /\ activation' = "settled"
    /\ IF ~c.resp.error
       THEN LET mappedExperiences == MapRows(c.resp.data)
            IN /\ experiences' = mappedExperiences
               /\ storage' = StoredList(mappedExperiences)
               /\ last' = Returned(c, Undef)
               /\ isLoading' = FALSE
               /\ UNCHANGED error
       ELSE LET saved == getSavedExperiences
            IN /\ error' = Str("Failed to load experiences")
               /\ experiences' = FallbackList(saved)
               /\ last' = IF saved.t = "null"
                          THEN Outcome(c, "raised", TypeError, "none")
                          ELSE Returned(c, Undef)
               /\ UNCHANGED <<storage, isLoading>>
    /\ UNCHANGED <<remote, nextId, issued, mapper>>

\* a mutant: the fetched rows are merged into the list instead of replacing it
FetchComplete_Merge(c) ==
    /\ c.op = "fetch"
    /\ inflight' = inflight \ {c}
    /\ activation' = "settled"
    /\ isLoading' = FALSE
    /\ IF ~c.resp.error
       THEN LET mappedExperiences == MapRows(c.resp.data)
            IN /\ experiences' = mappedExperiences \o experiences
               /\ storage' = StoredList(mappedExperiences)
               /\ last' = Returned(c, Undef)
               /\ UNCHANGED error
       ELSE LET saved == getSavedExperiences
            IN /\ error' = Str("Failed to load experiences")
               /\ experiences' = FallbackList(saved)
               /\ last' = IF saved.t = "null"
                          THEN Outcome(c, "raised", TypeError, "none")
                          ELSE Returned(c, Undef)
               /\ UNCHANGED storage
    /\ UNCHANGED <<remote, nextId, issued, mapper>>

\* fetchExperiences() after its await: try, catch and finally
FetchComplete(c) ==
    /\ c.op = "fetch"
    /\ inflight' = inflight \ {c}
    /\ activation' = "settled"
    /\ isLoading' = FALSE
    /\ IF ~c.resp.error
       THEN LET mappedExperiences == MapRows(c.resp.data)
            IN /\ experiences' = mappedExperiences
               /\ storage' = StoredList(mappedExperiences)
               /\ last' = Returned(c, Undef)
               /\ UNCHANGED error
       ELSE LET saved == getSavedExperiences
            IN /\ error' = Str("Failed to load experiences")
               /\ experiences' = FallbackList(saved)
               \* saved.length of null throws from the catch block
               /\ last' = IF saved.t = "null"
                          THEN Outcome(c, "raised", TypeError, "none")
                          ELSE Returned(c, Undef)
               /\ UNCHANGED storage
    /\ UNCHANGED <<remote, nextId, issued, mapper>>

---------------------------------------------------------------------------
(* addExperience *)

\* addExperience(experience) up to its await: insert(...).select('*').single()
AddExperience(experience) ==
    /\ CanCallHook
    /\ issued' = issued + 1
    /\ LET payload == addInsertPayload(experience)
           call == [cid |-> issued + 1, op |-> "add", experience |-> experience,
                    payload |-> payload]
       IN \/ /\ remote' = InsertRows(remote, <<payload>>, nextId)
             /\ nextId' = nextId + 1
             /\ inflight' = inflight \cup
                   {call @@ [resp |-> [error |-> FALSE, data |-> StoredRow(payload, IdOf(nextId + 1))]]}
          \/ /\ inflight' = inflight \cup {call @@ [resp |-> [error |-> TRUE]]}
             /\ UNCHANGED <<remote, nextId>>
    /\ UNCHANGED <<storage, experiences, isLoading, error, activation, last, mapper>>

\* a mutant: the new experience is put first
AppendExperience_First(prev, newExperience) == <<newExperience>> \o prev

\* setExperiences(prev => [...prev, newExperience])
AppendExperience(prev, newExperience) == Append(prev, newExperience)

\* addExperience after its await
AddComplete(c) ==
    /\ c.op = "add"
    /\ inflight' = inflight \ {c}
    /\ IF ~c.resp.error
       THEN LET newExperience == mapDbExperienceToModel(c.resp.data)
            IN /\ experiences' = AppendExperience(experiences, newExperience)
               /\ last' = Returned(c, newExperience)
       ELSE /\ last' = ToastAndRaised(c, "Failed to add experience")
            /\ UNCHANGED experiences
    /\ UNCHANGED <<remote, nextId, storage, isLoading, error, activation, issued, mapper>>

---------------------------------------------------------------------------
(* updateExperience *)

\* the column each `if (updates.x !== undefined) updateData.y = updates.x` fills
ColumnOf ==
    [title |-> "title", description |-> "description", imageUrl |-> "image_url",
     price |-> "price", location |-> "location", duration |-> "duration",
     participants |-> "participants", date |-> "date", category |-> "category",
     nicheCategory |-> "niche_category", exp_type |-> "exp_type",
     trending |-> "trending", featured |-> "featured", romantic |-> "romantic",
     adventurous |-> "adventurous", group |-> "group_activity"]

\* a mutant: every column is sent, null for a field the update does not give
updateData_AllColumns(updates) ==
    [c \in {ColumnOf[k] : k \in DOMAIN ColumnOf} |->
        LET k == CHOOSE x \in DOMAIN ColumnOf : ColumnOf[x] = c
        IN IF Get(updates, k) # Undef THEN updates[k] ELSE Null]

\* the sparse payload updateExperience builds
updateData(updates) ==
    LET given == {k \in DOMAIN ColumnOf : Get(updates, k) # Undef}
    IN [c \in {ColumnOf[k] : k \in given} |->
           updates[CHOOSE k \in given : ColumnOf[k] = c]]

\* { ...exp, ...updates }
Spread(exp, updates) ==
    [k \in DOMAIN exp \cup DOMAIN updates |->
        IF k \in DOMAIN updates THEN updates[k] ELSE exp[k]]

\* prev.map(exp => (exp.id === id ? { ...exp, ...updates } : exp))
MergeUpdates(prev, id, updates) ==
    [i \in 1..Len(prev) |->
        IF Get(prev[i], "id") = Str(id) THEN Spread(prev[i], updates) ELSE prev[i]]

\* updateExperience(id, updates) up to its await: update(updateData).eq('id', id)
UpdateExperience(id, updates) ==
    /\ CanCallHook
    /\ issued' = issued + 1
    /\ LET payload == updateData(updates)
           call == [cid |-> issued + 1, op |-> "update", id |-> id,
                    updates |-> updates, payload |-> payload, before |-> remote]
       IN \/ /\ remote' = UpdateRows(remote, payload, id)
             /\ inflight' = inflight \cup {call @@ [resp |-> [error |-> FALSE]]}
          \/ /\ inflight' = inflight \cup {call @@ [resp |-> [error |-> TRUE]]}
             /\ UNCHANGED remote
    /\ UNCHANGED <<nextId, storage, experiences, isLoading, error, activation, last, mapper>>

\* updateExperience after its await
UpdateComplete(c) ==
    /\ c.op = "update"
    /\ inflight' = inflight \ {c}
    /\ IF ~c.resp.error
       THEN /\ experiences' = MergeUpdates(experiences, c.id, c.updates)
            /\ last' = Returned(c, Undef)
       ELSE /\ last' = ToastAndRaised(c, "Failed to update experience")
            /\ UNCHANGED experiences
    /\ UNCHANGED <<remote, nextId, storage, isLoading, error, activation, issued, mapper>>

---------------------------------------------------------------------------
(* deleteExperience *)

\* deleteExperience(id) up to its await: delete().eq('id', id)
DeleteExperience(id) ==
    /\ CanCallHook
    /\ issued' = issued + 1
    /\ LET call == [cid |-> issued + 1, op |-> "delete", id |-> id]
       IN \/ /\ remote' = DeleteRows(remote, id)
             /\ inflight' = inflight \cup {call @@ [resp |-> [error |-> FALSE]]}
          \/ /\ inflight' = inflight \cup {call @@ [resp |-> [error |-> TRUE]]}
             /\ UNCHANGED remote
    /\ UNCHANGED <<nextId, storage, experiences, isLoading, error, activation, last, mapper>>

\* a mutant: the test of the filter is inverted, it keeps the element with the id
FilterOut_KeepMatching(prev, id) == SelectSeq(prev, LAMBDA exp : Get(exp, "id") = Str(id))

\* prev.filter(exp => exp.id !== id)
FilterOut(prev, id) == SelectSeq(prev, LAMBDA exp : Get(exp, "id") # Str(id))

\* deleteExperience after its await
DeleteComplete(c) ==
    /\ c.op = "delete"
    /\ inflight' = inflight \ {c}
    /\ IF ~c.resp.error
       THEN /\ experiences' = FilterOut(experiences, c.id)
            /\ last' = Returned(c, Undef)
       ELSE /\ last' = ToastAndRaised(c, "Failed to delete experience")
            /\ UNCHANGED experiences
    /\ UNCHANGED <<remote, nextId, storage, isLoading, error, activation, issued, mapper>>

---------------------------------------------------------------------------
(* importExperiences, exportExperiences, resetExperiences *)

ImportResult(success, message) == [success |-> success, message |-> message]

\* a mutant: no Array.isArray test, the parsed value is inserted as one object
ImportRejected_Inserts(json) ==
    /\ CanCallHook
    /\ ~(json.parse = "value" /\ json.value.t = "array")
    /\ issued' = issued + 1
    /\ remote' = InsertRows(remote, <<importInsertRow(<<>>)>>, nextId)
    /\ nextId' = nextId + 1
    /\ last' = Returned([cid |-> issued + 1, op |-> "import", json |-> json],
                        ImportResult(FALSE, "Invalid format: expected an array"))
    /\ UNCHANGED <<storage, experiences, isLoading, error, activation, inflight, mapper>>

\* importExperiences(jsonString) when JSON.parse throws or its value is no array:
\* it returns before any request
ImportRejected(json) ==
    /\ CanCallHook
    /\ ~(json.parse = "value" /\ json.value.t = "array")
    /\ issued' = issued + 1
    /\ LET call == [cid |-> issued + 1, op |-> "import", json |-> json]
       IN last' = IF json.parse = "throws"
                  THEN Returned(call, ImportResult(FALSE, "Error importing"))
                  ELSE Returned(call, ImportResult(FALSE, "Invalid format: expected an array"))
    /\ UNCHANGED <<remote, nextId, storage, experiences, isLoading, error, activation,
                   inflight, mapper>>

\* importExperiences(jsonString) up to its first await: insert(experiencesToInsert)
ImportExperiences(json) ==
    /\ CanCallHook
    /\ json.parse = "value" /\ json.value.t = "array"
    /\ issued' = issued + 1
    /\ LET rows == experiencesToInsert(json.value.a)
           call == [cid |-> issued + 1, op |-> "import", json |-> json,
                    phase |-> "insert", before |-> remote]
       IN \/ /\ remote' = InsertRows(remote, rows, nextId)
             /\ nextId' = nextId + Len(rows)
             /\ inflight' = inflight \cup {call @@ [resp |-> [error |-> FALSE]]}
          \/ /\ inflight' = inflight \cup {call @@ [resp |-> [error |-> TRUE]]}
             /\ UNCHANGED <<remote, nextId>>
    /\ UNCHANGED <<storage, experiences, isLoading, error, activation, last, mapper>>

\* importExperiences after its first await: the insert failed and it returns, or
\* it asks for the whole list
ImportInserted(c) ==
    /\ c.op = "import" /\ c.phase = "insert"
    /\ IF c.resp.error
       THEN /\ inflight' = inflight \ {c}
            /\ last' = Returned(c, ImportResult(FALSE, "Error importing"))
       ELSE /\ \E resp \in Answers(remote) :
                  inflight' = (inflight \ {c}) \cup
                      {[c EXCEPT !.phase = "refresh", !.resp = resp]}
            /\ UNCHANGED last
    /\ UNCHANGED <<remote, nextId, storage, experiences, isLoading, error, activation,
                   issued, mapper>>

\* importExperiences after its second await
ImportComplete(c) ==
    /\ c.op = "import" /\ c.phase = "refresh"
    /\ inflight' = inflight \ {c}
    /\ IF ~c.resp.error
       THEN /\ experiences' = MapRows(c.resp.data)
            /\ last' = Returned(c, ImportResult(TRUE, "Experiences imported successfully"))
       ELSE /\ last' = Returned(c, ImportResult(FALSE, "Error importing"))
            /\ UNCHANGED experiences
    /\ UNCHANGED <<remote, nextId, storage, isLoading, error, activation, issued, mapper>>

\* exportExperiences() up to its await
ExportExperiences ==
    /\ CanCallHook
    /\ issued' = issued + 1
    /\ \E resp \in Answers(remote) :
          inflight' = inflight \cup {[cid |-> issued + 1, op |-> "export", resp |-> resp]}
    /\ UNCHANGED <<remote, nextId, storage, experiences, isLoading, error, activation,
                   last, mapper>>

\* JSON.stringify(exportData, null, 2), as the text parses
JsonText(list) == [t |-> "jsontext", list |-> JsonList(list)]

\* a mutant: the catch of exportExperiences returns a result instead of throwing
ExportFailed_Returns(c) == Returned(c, ImportResult(FALSE, "Failed to export experiences"))

\* the catch of exportExperiences: toast.error(...); throw err
ExportFailed(c) == ToastAndRaised(c, "Failed to export experiences")

\* exportExperiences after its await
ExportComplete(c) ==
    /\ c.op = "export"
    /\ inflight' = inflight \ {c}
    /\ last' = IF ~c.resp.error
               THEN Returned(c, JsonText(MapRows(c.resp.data)))
               ELSE ExportFailed(c)
    /\ UNCHANGED <<remote, nextId, storage, experiences, isLoading, error, activation,
                   issued, mapper>>

\* resetExperiences(): a toast and a result, nothing else
ResetExperiences ==
    /\ CanCallHook
    /\ issued' = issued + 1
    /\ last' = Outcome([cid |-> issued + 1, op |-> "reset"], "returned",
                       ImportResult(TRUE, "Experiences have been reset"),
                       "Experiences have been reset")
    /\ UNCHANGED <<remote, nextId, storage, experiences, isLoading, error, activation,
                   inflight, mapper>>

---------------------------------------------------------------------------
(* The standalone read functions *)

\* a standalone read up to its await; `data` is what the query selects
ReadCall(op, args, data) ==
    /\ CanCall
    /\ issued' = issued + 1
    /\ \E resp \in Answers(data) :
          inflight' = inflight \cup {[cid |-> issued + 1, op |-> op] @@ args @@ [resp |-> resp]}
    /\ UNCHANGED <<remote, nextId, storage, experiences, isLoading, error, activation,
                   last, mapper>>

\* a standalone read's return or throw: it changes nothing else
ReadDone(c, outcome) ==
    /\ inflight' = inflight \ {c}
    /\ last' = outcome
    /\ UNCHANGED <<remote, nextId, storage, experiences, isLoading, error, activation,
                   issued, mapper>>

\* saved.filter(exp => exp[flag]) in a catch block: a TypeError when saved is no array
FilterSavedFlag(c, saved, flag) ==
    IF saved.t = "array"
    THEN Returned(c, Arr(SelectSeq(saved.a, LAMBDA exp : Truthy(Get(exp, flag)))))
    ELSE Outcome(c, "raised", TypeError, "none")

GetAllExperiences == ReadCall("getAll", <<>>, remote)

\* getAllExperiences after its await
GetAllComplete(c) ==
    /\ c.op = "getAll"
    /\ ReadDone(c, IF ~c.resp.error
                   THEN Returned(c, Arr(MapRows(c.resp.data)))
                   ELSE Returned(c, getSavedExperiences))

GetTrendingExperiences == ReadCall("getTrending", <<>>, SelectFlag(remote, "trending"))

\* getTrendingExperiences after its await
GetTrendingComplete(c) ==
    /\ c.op = "getTrending"
    /\ ReadDone(c, IF ~c.resp.error
                   THEN Returned(c, Arr(MapRows(c.resp.data)))
                   ELSE FilterSavedFlag(c, getSavedExperiences, "trending"))

GetFeaturedExperiences == ReadCall("getFeatured", <<>>, SelectFlag(remote, "featured"))

\* getFeaturedExperiences after its await
GetFeaturedComplete(c) ==
    /\ c.op = "getFeatured"
    /\ ReadDone(c, IF ~c.resp.error
                   THEN Returned(c, Arr(MapRows(c.resp.data)))
                   ELSE FilterSavedFlag(c, getSavedExperiences, "featured"))

GetExperienceById(id) ==
    ReadCall("getById", [id |-> id], SelectMaybeSingle(remote, id))

\* localExperiences.find(exp => exp.id === id) || null
FindSaved(c, saved) ==
    IF saved.t = "array"
    THEN LET found == SelectSeq(saved.a, LAMBDA exp : Get(exp, "id") = Str(c.id))
         IN Returned(c, IF found = <<>> THEN Null ELSE found[1])
    ELSE Outcome(c, "raised", TypeError, "none")

\* a mutant: no `if (!data) return null`, so that mapping null throws into the catch
GetByIdComplete_NoNullCheck(c) ==
    /\ c.op = "getById"
    /\ ReadDone(c, IF ~c.resp.error /\ c.resp.data # Null
                   THEN Returned(c, mapDbExperienceToModel(c.resp.data))
                   ELSE FindSaved(c, getSavedExperiences))

\* getExperienceById after its await
GetByIdComplete(c) ==
    /\ c.op = "getById"
    /\ ReadDone(c, IF ~c.resp.error
                   THEN IF c.resp.data = Null THEN Returned(c, Null)
                        ELSE Returned(c, mapDbExperienceToModel(c.resp.data))
                   ELSE FindSaved(c, getSavedExperiences))

\* categories.find(cat => cat.id === categoryId): the category, or undefined
FindCategory(categoryId) ==
    LET found == SelectSeq(categories, LAMBDA cat : cat.id = categoryId)
    IN IF found = <<>> THEN Undef ELSE found[1]

\* getExperiencesByCategory(categoryId) with no such category: [] and no request
GetByCategoryUnknown(categoryId) ==
    /\ CanCall
    /\ FindCategory(categoryId) = Undef
    /\ issued' = issued + 1
    /\ last' = Returned([cid |-> issued + 1, op |-> "getByCategory",
                         categoryId |-> categoryId], Arr(<<>>))
    /\ UNCHANGED <<remote, nextId, storage, experiences, isLoading, error, activation,
                   inflight, mapper>>

GetExperiencesByCategory(categoryId) ==
    /\ FindCategory(categoryId) # Undef
    /\ ReadCall("getByCategory", [categoryId |-> categoryId],
                SelectILike(remote, Lower(FindCategory(categoryId).name)))

\* exp.category?.toLowerCase() === categoryObj.name.toLowerCase()
SameCategory(exp, categoryObj) ==
    LET category == Get(exp, "category")
    IN category.t = "string" /\ Lower(category.s) = Lower(categoryObj.name)

\* localExperiences.filter(exp => categoryObj && ... === ...): a TypeError when the
\* fallback is no array
FilterSavedCategory(c, saved, categoryObj) ==
    IF saved.t = "array"
    THEN Returned(c, Arr(SelectSeq(saved.a, LAMBDA exp : SameCategory(exp, categoryObj))))
    ELSE Outcome(c, "raised", TypeError, "none")

\* getExperiencesByCategory after its await: the rows when there are some, else
\* (no rows, or an error) the fallback's elements of the category
GetByCategoryComplete(c) ==
    /\ c.op = "getByCategory"
    /\ LET categoryObj == FindCategory(c.categoryId)
       IN ReadDone(c, IF ~c.resp.error /\ Len(c.resp.data) > 0
                      THEN Returned(c, Arr(MapRows(c.resp.data)))
                      ELSE FilterSavedCategory(c, getSavedExperiences, categoryObj))

---------------------------------------------------------------------------
(* The specifications of the data layer *)

\* the state after construction, when the item of localStorage is `item`
InitWith(item, m) ==
    /\ remote = InitialTable
    /\ nextId = Len(InitialTable)
    /\ storage = item
    /\ experiences = <<>>
    /\ isLoading = TRUE
    /\ error = Null
    /\ activation = "idle"
    /\ inflight = {}
    /\ issued = 0
    /\ last = NoCall
    /\ mapper = m

\* the manager starts over an item that is missing, null, an empty list or a list
Init == \E item \in {s \in InitialStorage : s.item \notin {"unparsable", "object"}} : InitWith(item, Mapper0)

\* the manager under every interleaving of its calls starts over an item that is
\* missing or a list of cached records
InitOverlap ==
    \E item \in {s \in InitialStorage :
                    s.item = "absent" \/ (s.item = "array" /\ s.list # <<>>)} :
        InitWith(item, Mapper0)

\* the read functions start over any item
InitReads == \E item \in InitialStorage : InitWith(item, Mapper0)

\* the stateful manager, and getAllExperiences beside it
Next ==
    \/ Activate
    \/ \E c \in inflight : FetchComplete(c)
    \/ \E experience \in AddInputs : AddExperience(experience)
    \/ \E c \in inflight : AddComplete(c)
    \/ \E id \in UpdateIds, updates \in UpdateInputs : UpdateExperience(id, updates)
    \/ \E c \in inflight : UpdateComplete(c)
    \/ \E id \in DeleteIds : DeleteExperience(id)
    \/ \E c \in inflight : DeleteComplete(c)
    \/ \E json \in ImportInputs : ImportRejected(json)
    \/ \E json \in ImportInputs : ImportExperiences(json)
    \/ \E c \in inflight : ImportInserted(c)
    \/ \E c \in inflight : ImportComplete(c)
    \/ ExportExperiences
    \/ \E c \in inflight : ExportComplete(c)
    \/ ResetExperiences
    \/ GetAllExperiences
    \/ \E c \in inflight : GetAllComplete(c)

Spec == InitOverlap /\ [][Next]_vars

\* the standalone read functions, over what the manager left in localStorage
NextReads ==
    \/ GetAllExperiences
    \/ \E c \in inflight : GetAllComplete(c)
    \/ GetTrendingExperiences
    \/ \E c \in inflight : GetTrendingComplete(c)
    \/ GetFeaturedExperiences
    \/ \E c \in inflight : GetFeaturedComplete(c)
    \/ \E id \in ReadIds : GetExperienceById(id)
    \/ \E c \in inflight : GetByIdComplete(c)
    \/ \E categoryId \in CategoryInputs : GetByCategoryUnknown(categoryId)
    \/ \E categoryId \in CategoryInputs : GetExperiencesByCategory(categoryId)
    \/ \E c \in inflight : GetByCategoryComplete(c)

SpecReads == InitReads /\ [][NextReads]_vars

---------------------------------------------------------------------------
(* The record mapper on its own *)

\* external rows: every column of the select is there, null when the store holds
\* nothing; a flag column may also be missing from a loosely typed row
RowInputs ==
    {Present([RowHike EXCEPT !.title = title, !.latitude = latitude,
                             !.longitude = longitude, !.exp_type = exp_type,
                             !.trending = trending, !.group_activity = group_activity,
                             !.featured = featured, !.romantic = romantic,
                             !.adventurous = adventurous]) :
        title \in {Str("Hike"), Null},
        latitude \in {Null, Str("12"), Str("0"), Num(12), Num(0), Str("north")},
        longitude \in {Null, Str("7")},
        exp_type \in {Null, Arr(<<>>), Arr(<<Str("solo")>>)},
        trending \in {Undef, Null, Bool(FALSE), Bool(TRUE)},
        group_activity \in {Undef, Null, Bool(TRUE)},
        featured \in {Null, Bool(FALSE)},
        romantic \in {Undef, Bool(FALSE)},
        adventurous \in {Null, Bool(TRUE)}}

InitMapper == \E row \in RowInputs : InitWith([item |-> "absent"], [pc |-> "row", row |-> row])

\* mapDbExperienceToModel(row)
MapRow ==
    /\ mapper.pc = "row"
    /\ mapper' = [pc |-> "mapped", row |-> mapper.row,
                  model |-> mapDbExperienceToModel(mapper.row)]
    /\ UNCHANGED <<remote, nextId, storage, experiences, isLoading, error, activation,
                   inflight, issued, last>>

\* the mapped Experience handed back to insert, as addExperience builds the row
RemapForAdd ==
    /\ mapper.pc = "mapped"
    /\ mapper' = [pc |-> "remapped", row |-> mapper.row, model |-> mapper.model,
                  via |-> "addExperience", payload |-> addInsertPayload(mapper.model)]
    /\ UNCHANGED <<remote, nextId, storage, experiences, isLoading, error, activation,
                   inflight, issued, last>>

\* the mapped Experience handed back to insert, as importExperiences builds the row
RemapForImport ==
    /\ mapper.pc = "mapped"
    /\ mapper' = [pc |-> "remapped", row |-> mapper.row, model |-> mapper.model,
                  via |-> "importExperiences", payload |-> importInsertRow(mapper.model)]
    /\ UNCHANGED <<remote, nextId, storage, experiences, isLoading, error, activation,
                   inflight, issued, last>>

NextMapper == MapRow \/ RemapForAdd \/ RemapForImport

SpecMapper == InitMapper /\ [][NextMapper]_vars

\* no call of the manager's functions awaits an answer (the activation fetch may)
OneAtATime == \A c \in inflight : c.op = "fetch"

\* the manager's calls, each made when the one before has completed, the
\* activation fetch possibly still under way
NextLive ==
    \/ Activate
    \/ \E c \in inflight : FetchComplete(c)
    \/ \E experience \in AddInputs : OneAtATime /\ AddExperience(experience)
    \/ \E c \in inflight : AddComplete(c)
    \/ \E id \in UpdateIds, updates \in UpdateInputs :
          OneAtATime /\ UpdateExperience(id, updates)
    \/ \E c \in inflight : UpdateComplete(c)
    \/ \E id \in IdInputs : OneAtATime /\ DeleteExperience(id)
    \/ \E c \in inflight : DeleteComplete(c)
    \/ \E json \in ImportInputs : OneAtATime /\ ImportRejected(json)
    \/ \E json \in ImportInputs : OneAtATime /\ ImportExperiences(json)
    \/ \E c \in inflight : ImportInserted(c)
    \/ \E c \in inflight : ImportComplete(c)
    \/ OneAtATime /\ ExportExperiences
    \/ \E c \in inflight : ExportComplete(c)
    \/ OneAtATime /\ ResetExperiences

\* the step that ends the await of fetchExperiences: the effect goes from fetching
\* to settled. Among the steps of the manager these are the steps of FetchComplete,
\* and one is possible exactly while the fetch is in flight.
FetchResumes == activation = "fetching" /\ activation' = "settled"

\* the manager as it is scheduled: React runs the mount effect once the hook has
\* rendered, and the continuation of fetchExperiences runs once the remote call
\* has answered (the answer is chosen when the call is made)
SpecLive ==
    /\ Init
    /\ [][NextLive]_vars
    /\ WF_activation(Activate)
    /\ WF_activation(FetchResumes)

---------------------------------------------------------------------------
(* The stateful manager used one call at a time *)

\* no call awaits an answer: the activation fetch is not under way and every call
\* made so far has completed
Idle == inflight = {}

\* partial updates of one field each, beside those of UpdateInputs
SingleFieldUpdates ==
    {[price |-> Num(12)], [latitude |-> Num(7)], [exp_type |-> Arr(<<Str("solo")>>)]}

\* the manager's calls, each made when the one before has completed
NextSeq ==
    \/ Activate
    \/ \E c \in inflight : FetchComplete(c)
    \/ \E experience \in AddInputs : Idle /\ AddExperience(experience)
    \/ \E c \in inflight : AddComplete(c)
    \/ \E id \in IdInputs, updates \in UpdateInputs \cup SingleFieldUpdates :
          Idle /\ UpdateExperience(id, updates)
    \/ \E c \in inflight : UpdateComplete(c)
    \/ \E id \in IdInputs : Idle /\ DeleteExperience(id)
    \/ \E c \in inflight : DeleteComplete(c)
    \/ \E json \in ImportInputs : Idle /\ ImportRejected(json)
    \/ \E json \in ImportInputs : Idle /\ ImportExperiences(json)
    \/ \E c \in inflight : ImportInserted(c)
    \/ \E c \in inflight : ImportComplete(c)
    \/ Idle /\ ExportExperiences
    \/ \E c \in inflight : ExportComplete(c)
    \/ Idle /\ ResetExperiences

SpecSeq == Init /\ [][NextSeq]_vars

---------------------------------------------------------------------------
(* What the specification claims *)

\* a step that ends a call
Completes == last'.seq = last.seq + 1

\* the columns of the data model, the identity apart
DataColumns == DbFields \ {"id"}

\* a row as the store holds it: every column, the flags booleans, the type list a list
WellFormedRow(row) ==
    /\ DOMAIN row = DbFields
    /\ \A f \in {"trending", "featured", "romantic", "adventurous", "group_activity"} :
          row[f].t = "boolean"
    /\ row.exp_type.t = "array"

\* C1: mapping a row to an Experience and that Experience back to the row shape
\* of an insert gives the original value of every column of the data model (a
\* column the insert does not carry counts as null).
C1_RoundTripLossless ==
    (mapper.pc = "remapped" /\ WellFormedRow(mapper.row)) =>
        \A f \in DataColumns : JsonValue(Get(mapper.payload, f)) = mapper.row[f]

\* C2: updateExperience sends only fields the update holds, and on success the
\* element with the id has exactly the update's fields replaced, every other field
\* and every other element as before.
C2_UpdateIsSparse ==
    [][(Completes /\ last'.op = "update" /\ last'.outcome = "returned") =>
          LET c == last'.call
          IN /\ \A col \in DOMAIN c.payload :
                   \E k \in DOMAIN c.updates \cap DOMAIN ColumnOf :
                      /\ ColumnOf[k] = col
                      /\ c.payload[col] = c.updates[k]
             /\ Len(experiences') = Len(experiences)
             /\ \A i \in 1..Len(experiences) :
                   IF Get(experiences[i], "id") = Str(c.id)
                   THEN /\ \A k \in DOMAIN c.updates : experiences'[i][k] = c.updates[k]
                        /\ \A k \in DOMAIN experiences[i] \ DOMAIN c.updates :
                              experiences'[i][k] = experiences[i][k]
                        /\ DOMAIN experiences'[i] = DOMAIN experiences[i] \cup DOMAIN c.updates
                   ELSE experiences'[i] = experiences[i]]_vars

\* a successful update has merged into an element, beside one it left alone
C2_Witness ==
    /\ last.op = "update" /\ last.outcome = "returned"
    /\ \E i, j \in 1..Len(experiences) :
          /\ Get(experiences[i], "id") = Str(last.call.id)
          /\ Get(experiences[i], "title") = Str("Climb")
          /\ Get(experiences[j], "id") # Str(last.call.id)

\* C3: the activation fetch failing over a fallback that holds a non-empty list
\* ends with isLoading false, the error set and the in-memory list the fallback's.
C3_FallbackOnFailure ==
    (last.op = "fetch" /\ last.call.resp.error
        /\ storage.item = "array" /\ Len(storage.list) > 0) =>
        /\ isLoading = FALSE
        /\ error # Null
        /\ experiences = storage.list
        /\ Len(experiences) = Len(storage.list)

\* the fetch failed over three cached records, which are now the list
C3_Witness ==
    /\ last.op = "fetch" /\ last.call.resp.error
    /\ storage.item = "array" /\ Len(storage.list) = 3
    /\ Len(experiences) = 3

\* C4: a successful addExperience returns the Experience with the id the store
\* assigned and appends it: the list is one longer, its earlier elements as before.
C4_AddAppends ==
    [][(Completes /\ last'.op = "add" /\ last'.outcome = "returned") =>
          /\ last'.value.id = last'.call.resp.data.id
          /\ \E n \in 1..nextId : last'.value.id = IdOf(n)
          /\ Len(experiences') = Len(experiences) + 1
          /\ experiences'[Len(experiences')] = last'.value
          /\ SubSeq(experiences', 1, Len(experiences)) = experiences]_vars

\* an add has returned the id the store assigned and appended to a list that held two
C4_Witness ==
    /\ last.op = "add" /\ last.outcome = "returned"
    /\ last.value.id = Str("e3")
    /\ Len(experiences) = 3
    /\ experiences[3] = last.value

\* C5: importExperiences of JSON that is no array returns {success: false}, sends
\* no insert, and leaves the remote table and the in-memory list as they were.
C5_NonArrayRejected ==
    [][(Completes /\ last'.op = "import"
          /\ last'.call.json.parse = "value" /\ last'.call.json.value.t # "array") =>
          /\ last'.outcome = "returned"
          /\ last'.value.success = FALSE
          /\ "phase" \notin DOMAIN last'.call
          /\ inflight' = inflight
          /\ remote' = remote
          /\ experiences' = experiences]_vars

\* an import of a JSON object has been rejected
C5_Witness ==
    /\ last.op = "import" /\ last.call.json.value = EmptyObj
    /\ last.value.success = FALSE
    /\ remote = InitialTable

\* C6 as stated: importExperiences, exportExperiences and resetExperiences never raise.
C6_NeverRaise ==
    last.op \in {"import", "export", "reset"} => last.outcome = "returned"

\* C6: importExperiences and resetExperiences never raise, a failed remote call of
\* the import is reported by {success: false}; exportExperiences returns the JSON
\* text, and raises, after an error toast, exactly when its remote call fails.
C6_ImportAndResetNeverRaise ==
    /\ last.op \in {"import", "reset"} =>
          /\ last.outcome = "returned"
          /\ last.value.success \in BOOLEAN
          /\ ("resp" \in DOMAIN last.call /\ last.call.resp.error) => last.value.success = FALSE
    /\ last.op = "export" =>
          IF last.call.resp.error
          THEN last.outcome = "raised" /\ last.toast = "Failed to export experiences"
          ELSE last.outcome = "returned" /\ last.value.t = "jsontext"

\* an import whose remote call failed has returned {success: false}
C6_Witness ==
    /\ last.op = "import" /\ "resp" \in DOMAIN last.call /\ last.call.resp.error
    /\ last.outcome = "returned" /\ last.value.success = FALSE

\* the call that ended last was a successful fetch of the whole list
FetchedList ==
    /\ last.op \in {"fetch", "import", "getAll", "export"}
    /\ "resp" \in DOMAIN last.call
    /\ ~last.call.resp.error
    /\ last.op = "import" => last.call.phase = "refresh"

\* C7 as stated: after every successful fetch of the list (activation, the refresh
\* of an import, getAllExperiences, exportExperiences) the fallback holds that list.
C7_EveryFetchWrites ==
    FetchedList => storage = StoredList(MapRows(last.call.resp.data))

\* C7: a successful activation fetch overwrites the fallback with the JSON of the
\* whole list it fetched, and nothing else writes the fallback.
C7_ActivationFetchWrites ==
    [][IF Completes /\ last'.op = "fetch" /\ ~last'.call.resp.error
       THEN /\ storage' = [item |-> "array", list |-> JsonList(MapRows(last'.call.resp.data))]
            /\ Len(storage'.list) = Len(last'.call.resp.data)
       ELSE storage' = storage]_vars

\* the activation fetch has replaced a cached list of three by the two rows fetched
C7_Witness ==
    /\ last.op = "fetch" /\ ~last.call.resp.error
    /\ storage.item = "array" /\ Len(storage.list) = 2
    /\ storage.list[1].id = Str("e1")

\* the standalone read functions
ReadOps == {"getAll", "getTrending", "getFeatured", "getById", "getByCategory"}

\* C8: the read functions never raise, whatever the fallback holds; when the
\* remote call fails each returns what it derives from the fallback: the whole
\* value, the elements with the flag, the element with the id or null, the
\* elements of the category.
C8_ReadsNeverRaise ==
    last.op \in ReadOps =>
        /\ last.outcome = "returned"
        /\ ("resp" \in DOMAIN last.call /\ last.call.resp.error) =>
              last.value =
                 CASE last.op = "getAll" -> getSavedExperiences
                   [] last.op = "getTrending" ->
                        Arr(SelectSeq(getSavedExperiences.a,
                                      LAMBDA exp : Get(exp, "trending") = Bool(TRUE)))
                   [] last.op = "getFeatured" ->
                        Arr(SelectSeq(getSavedExperiences.a,
                                      LAMBDA exp : Get(exp, "featured") = Bool(TRUE)))
                   [] last.op = "getById" ->
                        IF \E i \in 1..Len(getSavedExperiences.a) :
                              Get(getSavedExperiences.a[i], "id") = Str(last.call.id)
                        THEN getSavedExperiences.a[
                                CHOOSE i \in 1..Len(getSavedExperiences.a) :
                                   /\ Get(getSavedExperiences.a[i], "id") = Str(last.call.id)
                                   /\ \A j \in 1..(i - 1) :
                                         Get(getSavedExperiences.a[j], "id") # Str(last.call.id)]
                        ELSE Null
                   [] last.op = "getByCategory" ->
                        Arr(SelectSeq(getSavedExperiences.a,
                                      LAMBDA exp : SameCategory(exp, FindCategory(last.call.categoryId))))

\* C9: a failed remote call of add, update or delete emits the error toast and
\* re-raises, the in-memory list and the fallback as they were.
C9_WriteFailureRaises ==
    [][(Completes /\ last'.op \in {"add", "update", "delete"} /\ last'.call.resp.error) =>
          /\ last'.outcome = "raised"
          /\ last'.value = RemoteError
          /\ last'.toast = (CASE last'.op = "add" -> "Failed to add experience"
                              [] last'.op = "update" -> "Failed to update experience"
                              [] last'.op = "delete" -> "Failed to delete experience")
          /\ experiences' = experiences
          /\ storage' = storage]_vars

\* a failed update has raised with a list in memory
C9_Witness ==
    /\ last.op = "update" /\ last.call.resp.error
    /\ last.outcome = "raised" /\ last.toast = "Failed to update experience"
    /\ Len(experiences) > 0

\* no row of the remote table has the identifier
NoRow(id) == \A i \in 1..Len(remote) : remote[i].id # Str(id)

FirstWithId(list, id) ==
    LET hits == {i \in 1..Len(list) : Get(list[i], "id") = Str(id)}
    IN IF hits = {} THEN Null
       ELSE list[CHOOSE i \in hits : \A j \in hits : i <= j]

IdsOf(list) == {Get(list[i], "id") : i \in 1..Len(list)}

\* C11: a deleteExperience whose answer arrives when no element of the in-memory
\* list has its id leaves the list as it was, whether the remote delete
\* succeeded or failed.
C11_DeleteAbsentIsNoOp ==
    [][(Completes /\ last'.op = "delete" /\ Str(last'.call.id) \notin IdsOf(experiences)) =>
          experiences' = experiences]_vars

\* a delete has removed the row e1 of the remote table while the list, the three
\* cached records of the fallback, holds no element e1 and is as it was
C11_Witness ==
    /\ last.op = "delete" /\ last.outcome = "returned" /\ last.call.id = "e1"
    /\ \A i \in 1..Len(remote) : remote[i].id # Str("e1")
    /\ Len(experiences) = 3
    /\ Str("e1") \notin IdsOf(experiences)

\* the five flags of an Experience
FlagFields == {"trending", "featured", "romantic", "adventurous", "group"}

\* C12: each of the five flags of a mapped Experience is there and a boolean, and
\* it is false when the row's field (group_activity for group) is absent or null.
C12_FlagsDefaultFalse ==
    mapper.pc \in {"mapped", "remapped"} =>
        \A k \in FlagFields :
            /\ k \in DOMAIN mapper.model
            /\ mapper.model[k].t = "boolean"
            /\ Get(mapper.row, ColumnOf[k]) \in {Undef, Null} => mapper.model[k] = Bool(FALSE)

\* a row without trending and romantic, its featured, adventurous and
\* group_activity null, has been mapped: the five flags are false
C12_Witness ==
    /\ mapper.pc = "mapped"
    /\ {"trending", "romantic"} \cap DOMAIN mapper.row = {}
    /\ \A col \in {"featured", "adventurous", "group_activity"} : Get(mapper.row, col) = Null
    /\ \A k \in FlagFields : mapper.model[k] = Bool(FALSE)

\* the category of a record or row is `name`, the case of letters apart
InCategory(x, name) ==
    Get(x, "category").t = "string" /\ Lower(Get(x, "category").s) = Lower(name)

\* C13: getExperiencesByCategory of an identifier of no category returns an empty
\* list and sends no request; otherwise the request selects the rows of the
\* category's name, the case apart, and the result is those rows mapped when there
\* is at least one, and else (no row, or a failed request) exactly the elements of
\* the fallback that are of that name, the case apart.
C13_CategoryResolution ==
    last.op = "getByCategory" =>
        LET categoryObj == FindCategory(last.call.categoryId)
        IN IF categoryObj = Undef
           THEN /\ last.outcome = "returned"
                /\ last.value = Arr(<<>>)
                /\ "resp" \notin DOMAIN last.call
           ELSE /\ "resp" \in DOMAIN last.call
                /\ ~last.call.resp.error =>
                      last.call.resp.data =
                         SelectSeq(remote, LAMBDA r : InCategory(r, categoryObj.name))
                /\ last.outcome = "returned"
                /\ IF ~last.call.resp.error /\ last.call.resp.data # <<>>
                   THEN last.value = Arr(MapRows(last.call.resp.data))
                   ELSE last.value =
                           Arr(SelectSeq(getSavedExperiences.a,
                                         LAMBDA exp : InCategory(exp, categoryObj.name)))

\* C14: when the activation fetch completes with the rows it read, the in-memory
\* list is those rows: an experience appended meanwhile by an addExperience that
\* inserted its row after the fetch had read the table is overwritten and gone.
C14_FetchOverwritesAppended ==
    [][(Completes /\ last'.op = "fetch" /\ ~last'.call.resp.error) =>
          /\ experiences' = MapRows(last'.call.resp.data)
          /\ \A x \in IdsOf(experiences) \ IdsOf(last'.call.resp.data) :
                x \notin IdsOf(experiences')]_vars

\* the fetch read two rows, the add inserted e3 and completed, then the fetch
\* completed: the remote table holds e3 and the list does not
C14_Witness ==
    /\ last.op = "fetch" /\ ~last.call.resp.error
    /\ inflight = {} /\ issued = 1
    /\ Len(remote) = 3 /\ remote[3].id = Str("e3") /\ remote[3].title = Str("Kayak")
    /\ experiences = MapRows(InitialTable)
    /\ Str("e3") \notin IdsOf(experiences)

\* the identifiers of the remote rows are unique: the store assigns each once
RemoteIdsUnique == Cardinality(IdsOf(remote)) = Len(remote)

\* C15: with the identifiers of the remote rows unique, no two elements of the
\* in-memory list have the same id, whatever the interleaving of the activation
\* fetch, addExperience, updateExperience, deleteExperience and importExperiences.
C15_NoDuplicateIds ==
    RemoteIdsUnique => Cardinality(IdsOf(experiences)) = Len(experiences)

\* C16: when importExperiences returns {success: false}, the remote table is as
\* it was before the call (the calls are made one at a time, so that no other call
\* writes the table meanwhile).
C16_FailedImportInsertsNothing ==
    [][(Completes /\ last'.op = "import" /\ last'.value.success = FALSE) =>
          remote' = (IF "before" \in DOMAIN last'.call THEN last'.call.before ELSE remote)]_vars

\* the element of a list, or the row of a table, that has the identifier
WithId(list, id) == list[CHOOSE i \in 1..Len(list) : Get(list[i], "id") = Str(id)]

\* the in-memory element for the identifier is the mapping of the row `table` has for it
InStep(list, table, id) ==
    /\ Str(id) \in IdsOf(list)
    /\ Str(id) \in IdsOf(table)
    /\ WithId(list, id) = mapDbExperienceToModel(WithId(table, id))

\* C17: when the in-memory element for the id is the mapping of the remote row
\* before an updateExperience, with no other call in flight, it is again the
\* mapping of the remote row after the update has succeeded.
C17_UpdateKeepsInStep ==
    [][(/\ Completes /\ last'.op = "update" /\ last'.outcome = "returned"
        /\ InStep(experiences, last'.call.before, last'.call.id)) =>
          InStep(experiences', remote', last'.call.id)]_vars

\* the call that completed last succeeded: it returned, and an import with success
Succeeded ==
    /\ last.outcome = "returned"
    /\ last.op = "import" => last.value.success

\* C18: the activation fetch having succeeded and the calls being made one at a
\* time, after every successful addExperience, deleteExperience or
\* importExperiences the ids of the in-memory list are the ids of the remote table.
C18_IdsAgreeAfterWrite ==
    (/\ activation = "settled" /\ error = Null /\ Idle
     /\ last.op \in {"add", "delete", "import"} /\ Succeeded) =>
        IdsOf(experiences) = IdsOf(remote)

\* C19: isLoading is true until the activation fetch settles; once the fetch is
\* under way (its remote call answers with rows or with an error) isLoading
\* eventually becomes false; and once false it stays false, whatever add, update,
\* delete, import, export or reset does.
C19_LoadingSettles ==
    /\ [](activation # "settled" => isLoading)
    /\ (activation = "fetching") ~> (isLoading = FALSE)
    /\ [][isLoading = FALSE => isLoading' = FALSE]_vars

\* the activation fetch failed, and a call made since has completed with
\* isLoading false
C19_Witness ==
    /\ activation = "settled" /\ error # Null
    /\ last.op \in {"add", "update", "delete", "import", "export", "reset"}
    /\ last.seq >= 2
    /\ isLoading = FALSE

====
